---- MODULE Spec2Model ----
(***************************************************************************)
(* PropEdge (src/propedge.py): the game-log cache, analyze_prop and the    *)
(* ranking step of run_analysis.                                           *)
(*                                                                         *)
(* Numbers.  Python floats are modelled by exact decimal fixed point:      *)
(*   - a line, a near_threshold and an exact margin are integers counting  *)
(*     hundredths (24.5 is 2450);                                          *)
(*   - a margin after round(margin, 1) is an integer counting tenths;      *)
(*   - 'avg_margin', 'std_dev', 'last5_avg' count hundredths, 'score' and  *)
(*     'hit_rate' count tenths (their rounded precision).                  *)
(* round() is Python's round-half-even.  The lines are chosen so that the  *)
(* only exact ties round(margin, 1) meets are multiples of 0.25, which are *)
(* exact in binary floating point as well; representation error of floats  *)
(* is not modelled.                                                        *)
(***************************************************************************)
EXTENDS Integers, Sequences, FiniteSets, TLC

VARIABLES
    source,           \* NBA.com as seen through nba_api: per player name
    playerIdCache,    \* _player_id_cache
    gamelogCache,     \* _gamelog_cache
    fetches,          \* number of PlayerGameLog requests made, per player name
    last,             \* the last library call: its arguments and what it returned
    repeat,           \* whether the last call had the arguments of the call before it,
                      \* and if so what that call returned
    pc,               \* "start", "lib" after a library call, "done"/"crashed" after run_analysis
    props,            \* the props run_analysis got from fetch_all_props
    scored,           \* run_analysis: results in the order they were appended
    ranked,           \* run_analysis: results after results.sort
    report            \* what run_analysis prints and generate_html writes about tiers

vars == <<source, playerIdCache, gamelogCache, fetches, last, repeat, pc,
          props, scored, ranked, report>>

(***************************************************************************)
(* Bounds of the model                                                     *)
(***************************************************************************)
MaxGames == 7       \* longest season log the source holds for a player
MaxProps == 3       \* longest prop list run_analysis is given

(***************************************************************************)
(* Program constants                                                       *)
(***************************************************************************)
DefaultNearThreshold == 150     \* near_threshold=1.5
DefaultNumGames == 10           \* num_games=10
LogSlack == 5                   \* get_game_logs(..., num_games=num_games + 5)
DefaultLogCount == 15           \* get_game_logs(player_name, num_games=15)
NoneVal == 0 - 1                \* a stat column holding None

MARKET_STAT_COLS ==
    [ player_points                  |-> <<"PTS">>,
      player_rebounds                |-> <<"REB">>,
      player_assists                 |-> <<"AST">>,
      player_steals                  |-> <<"STL">>,
      player_blocks                  |-> <<"BLK">>,
      player_points_rebounds_assists |-> <<"PTS", "REB", "AST">>,
      player_points_rebounds         |-> <<"PTS", "REB">>,
      player_points_assists          |-> <<"PTS", "AST">>,
      player_rebounds_assists        |-> <<"REB", "AST">> ]

(***************************************************************************)
(* Arithmetic helpers                                                      *)
(***************************************************************************)
Min(a, b) == IF a <= b THEN a ELSE b
Max(a, b) == IF a >= b THEN a ELSE b

\* round(a / b) for b > 0: the nearest integer, an exact half going to the even one
RoundDiv(a, b) ==
    LET lo == a \div b
        r  == a - lo * b
    IN  IF 2 * r < b THEN lo
        ELSE IF 2 * r > b THEN lo + 1
        ELSE IF lo % 2 = 0 THEN lo ELSE lo + 1

\* the least t >= 0 with t * t >= x, for x >= 0 (bisection)
RECURSIVE CeilSqrtIn(_, _, _)
CeilSqrtIn(x, lo, hi) ==
    IF lo >= hi THEN lo
    ELSE LET mid == (lo + hi) \div 2
         IN  IF mid * mid >= x THEN CeilSqrtIn(x, lo, mid)
             ELSE CeilSqrtIn(x, mid + 1, hi)

CeilSqrt(x) == CeilSqrtIn(x, 0, Min(x, 46340))

FloorSqrt(x) == LET c == CeilSqrt(x) IN IF c * c = x THEN c ELSE c - 1

\* round((num - sqrt(sq)) / den) for den > 0, sq >= 0, an exact half going to even:
\* floor((num - sqrt(sq)) / den + 1/2) = floor((2 num + den - sqrt(4 sq)) / (2 den))
RoundSqrtDiv(num, sq, den) ==
    LET c   == CeilSqrt(4 * sq)
        top == 2 * num + den - c
        t   == top \div (2 * den)
        tie == c * c = 4 * sq /\ top % (2 * den) = 0
    IN  IF tie /\ t % 2 # 0 THEN t - 1 ELSE t

\* round(sqrt(sq) / den) for den > 0, sq >= 0, an exact half going to even
RoundSqrtOver(sq, den) ==
    LET f   == FloorSqrt(4 * sq)
        top == f + den
        t   == top \div (2 * den)
        tie == f * f = 4 * sq /\ top % (2 * den) = 0
    IN  IF tie /\ t % 2 # 0 THEN t - 1 ELSE t

RECURSIVE SumSeq(_)
SumSeq(s) == IF s = <<>> THEN 0 ELSE Head(s) + SumSeq(Tail(s))

\* s[:k]
Take(s, k) == SubSeq(s, 1, Min(Len(s), Max(k, 0)))

(***************************************************************************)
(* The inputs: players, the rows NBA.com can hold, the props               *)
(***************************************************************************)
Players == {"p1", "p2"}

\* Stat rows of a game log (df columns PTS, REB, AST, ...).  A column can be
\* absent from a row or hold None.
StatRows ==
    << [PTS |-> 30, REB |-> 1, AST |-> 0],
       [PTS |-> 1, REB |-> NoneVal, AST |-> 2],
       [PTS |-> 0, AST |-> 1],
       [PTS |-> 2, REB |-> 0, AST |-> 0, STL |-> 1, BLK |-> 0] >>

\* A season log of len games, newest first: game i is dated 100 - i and its
\* stats are the rows taken in turn from row off + 1.
MakeLog(len, off) ==
    [i \in 1..len |->
        [GAME_DATE |-> 100 - i] @@ StatRows[((off + i - 1) % Len(StatRows)) + 1]]

\* What the source holds for a name: no such player ("noid"), a player whose
\* PlayerGameLog request fails ("raises"), or a player and the rows of the log.
SourceEntries(p) ==
    IF p = "p1"
    THEN {[kind |-> "ok", rows |-> MakeLog(len, off)] : len \in 0..MaxGames, off \in {0, 1}}
    ELSE {[kind |-> "noid", rows |-> <<>>], [kind |-> "raises", rows |-> <<>>],
          [kind |-> "ok", rows |-> MakeLog(2, 1)]}

Prop(player, market, line, odds) ==
    [player |-> player, market |-> market, line |-> line, over_odds |-> odds]

\* Props as fetch_all_props builds them (line in hundredths)
Props ==
    { Prop("p1", "player_points", 100, 0 - 110),
      Prop("p1", "player_points", 96, 0 - 110),
      Prop("p1", "player_points_rebounds", 175, 0 - 110),
      Prop("p1", "player_points_rebounds_assists", 250, 0 - 110),
      Prop("p2", "player_points", 350, 0 - 110) }

\* The props run_analysis is given: one line offered at two prices, another
\* market of the same player, and a prop of the other player
RunProps ==
    { Prop("p1", "player_points", 100, 0 - 110),
      Prop("p1", "player_points", 100, 120),
      Prop("p1", "player_points_rebounds", 75, 0 - 110),
      Prop("p2", "player_points", 350, 0 - 110) }

NearThresholds == {0, DefaultNearThreshold}
\* num_games: 1, and the least window a cache filled by num_games=1 cannot serve
NumGamesChoices == {1, LogSlack + 2}

(***************************************************************************)
(* STEP 3 - game logs                                                      *)
(***************************************************************************)
\* get_game_logs with the try / except around the request left out
GetGameLogsNoCatch(idc, glc, name, num_games) ==
    IF glc[name].present
    THEN [logs |-> Take(glc[name].logs, num_games), idc |-> idc, glc |-> glc,
          fetched |-> FALSE, raised |-> FALSE]
    ELSE IF source[name].kind = "noid"
    THEN [logs |-> <<>>, idc |-> [idc EXCEPT ![name] = "none"],
          glc |-> [glc EXCEPT ![name] = [present |-> TRUE, logs |-> <<>>]],
          fetched |-> FALSE, raised |-> FALSE]
    ELSE [logs |-> Take(source[name].rows, num_games), idc |-> [idc EXCEPT ![name] = "id"],
          glc |-> IF source[name].kind = "raises" THEN glc
                  ELSE [glc EXCEPT ![name] =
                          [present |-> TRUE, logs |-> Take(source[name].rows, num_games)]],
          fetched |-> TRUE, raised |-> source[name].kind = "raises"]

\* get_game_logs with the except branch returning [] without caching it
GetGameLogsNoCacheOnError(idc, glc, name, num_games) ==
    IF glc[name].present
    THEN [logs |-> Take(glc[name].logs, num_games), idc |-> idc, glc |-> glc,
          fetched |-> FALSE, raised |-> FALSE]
    ELSE IF source[name].kind = "noid"
    THEN [logs |-> <<>>, idc |-> [idc EXCEPT ![name] = "none"],
          glc |-> [glc EXCEPT ![name] = [present |-> TRUE, logs |-> <<>>]],
          fetched |-> FALSE, raised |-> FALSE]
    ELSE [logs |-> Take(source[name].rows, num_games), idc |-> [idc EXCEPT ![name] = "id"],
          glc |-> IF source[name].kind = "raises" THEN glc
                  ELSE [glc EXCEPT ![name] =
                          [present |-> TRUE, logs |-> Take(source[name].rows, num_games)]],
          fetched |-> TRUE, raised |-> FALSE]

\* get_game_logs caching df.head(5) instead of df.head(num_games)
GetGameLogsShortCache(idc, glc, name, num_games) ==
    IF glc[name].present
    THEN [logs |-> Take(glc[name].logs, num_games), idc |-> idc, glc |-> glc,
          fetched |-> FALSE, raised |-> FALSE]
    ELSE IF source[name].kind = "noid"
    THEN [logs |-> <<>>, idc |-> [idc EXCEPT ![name] = "none"],
          glc |-> [glc EXCEPT ![name] = [present |-> TRUE, logs |-> <<>>]],
          fetched |-> FALSE, raised |-> FALSE]
    ELSE [logs |-> Take(source[name].rows, num_games), idc |-> [idc EXCEPT ![name] = "id"],
          glc |-> [glc EXCEPT ![name] =
                     [present |-> TRUE, logs |-> Take(source[name].rows, LogSlack)]],
          fetched |-> TRUE, raised |-> FALSE]

\* _find_player_id: the cached answer, else the roster's answer, which is cached.
\* The three matching passes over nba_players.get_players() are the roster's
\* answer for the name: an id, or None.
FindPlayerId(idc, name) ==
    IF idc[name] # "absent"
    THEN [pid |-> idc[name], idc |-> idc]
    ELSE LET pid == IF source[name].kind = "noid" THEN "none" ELSE "id"
         IN  [pid |-> pid, idc |-> [idc EXCEPT ![name] = pid]]

CacheEntry(logs) == [present |-> TRUE, logs |-> logs]

\* get_game_logs(player_name, num_games) run on the caches idc, glc: the rows
\* returned, the caches afterwards, whether PlayerGameLog was requested and
\* whether an exception left the function.
GetGameLogs(idc, glc, name, num_games) ==
    IF glc[name].present
    THEN [logs |-> Take(glc[name].logs, num_games), idc |-> idc, glc |-> glc,
          fetched |-> FALSE, raised |-> FALSE]
    ELSE LET f == FindPlayerId(idc, name)
         IN  IF f.pid = "none"
             THEN [logs |-> <<>>, idc |-> f.idc,
                   glc |-> [glc EXCEPT ![name] = CacheEntry(<<>>)],
                   fetched |-> FALSE, raised |-> FALSE]
             ELSE IF source[name].kind = "raises"
             THEN [logs |-> <<>>, idc |-> f.idc,
                   glc |-> [glc EXCEPT ![name] = CacheEntry(<<>>)],
                   fetched |-> TRUE, raised |-> FALSE]
             ELSE LET logs == Take(source[name].rows, num_games)   \* df.head(num_games)
                  IN  [logs |-> Take(logs, num_games), idc |-> f.idc,
                       glc |-> [glc EXCEPT ![name] = CacheEntry(logs)],
                       fetched |-> TRUE, raised |-> FALSE]

(***************************************************************************)
(* STEP 4 - analyze_prop                                                   *)
(***************************************************************************)
\* g.get(c, 0) with the "or 0" left out: a None stays in the sum
StatValueNoOr(g, c) == IF c \in DOMAIN g THEN g[c] ELSE 0

\* g.get(c, 0) or 0
StatValue(g, c) ==
    LET v == IF c \in DOMAIN g THEN g[c] ELSE 0
    IN  IF v = NoneVal \/ v = 0 THEN 0 ELSE v

\* val = sum(g.get(c, 0) or 0 for c in stat_cols)
GameValue(g, stat_cols) == SumSeq([i \in DOMAIN stat_cols |-> StatValue(g, stat_cols[i])])

\* the first test written margin >= 0
ClassifyGE(margin, near_threshold) ==
    IF margin >= 0 THEN "HIT"
    ELSE IF margin >= 0 - near_threshold THEN "NEAR"
    ELSE "MISS"

\* the if / elif / else on margin (margin and near_threshold in hundredths)
Classify(margin, near_threshold) ==
    IF margin > 0 THEN "HIT"
    ELSE IF margin >= 0 - near_threshold THEN "NEAR"
    ELSE "MISS"

\* round(margin, 1): hundredths in, tenths out
Round1(margin) == RoundDiv(margin, 10)

\* one entry of details ("matchup" and "minutes" are copied from the row for
\* display and are left out)
Detail(g, stat_cols, line, near_threshold) ==
    LET val    == GameValue(g, stat_cols)
        margin == val * 100 - line
    IN  [date   |-> g.GAME_DATE,
         value  |-> val,
         margin |-> Round1(margin),
         result |-> Classify(margin, near_threshold)]

\* hits = sum(1 for m in margins if m > 0), m a rounded margin (tenths)
Hits(margins) == Cardinality({i \in DOMAIN margins : margins[i] > 0})

\* nears = sum(1 for m in margins if -near_threshold <= m <= 0)
Nears(margins, near_threshold) ==
    Cardinality({i \in DOMAIN margins :
                    0 - near_threshold <= 10 * margins[i] /\ margins[i] <= 0})

\* n * n * (the population variance of the margins), in tenths squared
SqDev(margins) ==
    LET n == Len(margins)
        s == SumSeq(margins)
    IN  n * SumSeq([i \in DOMAIN margins |-> margins[i] * margins[i]]) - s * s

\* the score with avg_norm not clamped
ScoreNoClamp(margins, hits, nears) ==
    LET n    == Len(margins)
        base == 1600 * hits + 600 * nears + 5 * (SumSeq(margins) + 100 * n)
    IN  IF SqDev(margins) >= (100 * n) * (100 * n)
        THEN RoundDiv(base, 4 * n)
        ELSE RoundSqrtDiv(base + 800 * n, 64 * SqDev(margins), 4 * n)

\* the score with the weights of hit_rate and near_rate exchanged
ScoreSwapped(margins, hits, nears) ==
    LET n    == Len(margins)
        norm == Min(200 * n, Max(0, SumSeq(margins) + 100 * n))
        base == 600 * hits + 1600 * nears + 5 * norm
    IN  IF SqDev(margins) >= (100 * n) * (100 * n)
        THEN RoundDiv(base, 4 * n)
        ELSE RoundSqrtDiv(base + 800 * n, 64 * SqDev(margins), 4 * n)

\* round(score, 1) in tenths.  With S the sum of the margins (tenths) and
\* Q = SqDev: avg_norm = clamp(S + 100 n, 0, 200 n) / (200 n),
\* consistency = max(0, 1 - sqrt(Q) / (100 n)), so that
\* 10 * score = (1600 hits + 600 nears + 5 clamp(..) + max(0, 800 n - 8 sqrt(Q))) / (4 n)
Score(margins, hits, nears) ==
    LET n    == Len(margins)
        s    == SumSeq(margins)
        q    == SqDev(margins)
        norm == Min(200 * n, Max(0, s + 100 * n))
        base == 1600 * hits + 600 * nears + 5 * norm
    IN  IF q >= (100 * n) * (100 * n)
        THEN RoundDiv(base, 4 * n)
        ELSE RoundSqrtDiv(base + 800 * n, 64 * q, 4 * n)

NoData == [kind |-> "None"]
Raised == [kind |-> "raise"]

\* lines 260-313: the result for the rows get_game_logs returned (logs non-empty)
AnalyzeSample(logs, prop, near_threshold, num_games) ==
    LET stat_cols == MARKET_STAT_COLS[prop.market]
        sample    == Take(logs, num_games)
        details   == [i \in DOMAIN sample |->
                        Detail(sample[i], stat_cols, prop.line, near_threshold)]
        margins   == [i \in DOMAIN details |-> details[i].margin]
        n         == Len(details)
        hits      == Hits(margins)
        nears     == Nears(margins, near_threshold)
        last5     == Take(margins, 5)
    IN  IF n = 0 THEN NoData
        ELSE [kind       |-> "ok",
              hits       |-> hits,
              nears      |-> nears,
              games      |-> n,
              avg_margin |-> RoundDiv(10 * SumSeq(margins), n),
              std_dev    |-> RoundSqrtOver(100 * SqDev(margins), n),
              score      |-> Score(margins, hits, nears),
              hit_rate   |-> RoundDiv(1000 * hits, n),
              last5_avg  |-> RoundDiv(10 * SumSeq(last5), Len(last5)),
              details    |-> details]

\* analyze_prop(prop, near_threshold, num_games) run on the caches idc, glc
AnalyzePropOn(idc, glc, prop, near_threshold, num_games) ==
    LET got == GetGameLogs(idc, glc, prop.player, num_games + LogSlack)
    IN  [result  |-> IF got.raised THEN Raised
                     ELSE IF got.logs = <<>> THEN NoData
                     ELSE AnalyzeSample(got.logs, prop, near_threshold, num_games),
         logs    |-> got.logs,
         idc     |-> got.idc,
         glc     |-> got.glc,
         fetched |-> got.fetched]

Call(op, prop, near_threshold, num_games) ==
    [op |-> op, prop |-> prop, near_threshold |-> near_threshold, num_games |-> num_games]

NoCall == [args |-> Call("none", Prop("", "", 0, 0), 0, 0), logs |-> <<>>, result |-> NoData]

\* what is remembered of the call before a call with arguments args
Repeated(before, args) ==
    IF before.args = args
    THEN [same |-> TRUE, result |-> before.result]
    ELSE [same |-> FALSE, result |-> NoData]

Bump(f, name, fetched) == IF fetched THEN [f EXCEPT ![name] = Min(@ + 1, 2)] ELSE f

\* a direct call of get_game_logs(player_name, num_games)
GetGameLogsCall(name, num_games) ==
    /\ pc \in {"start", "lib"}
    /\ \E out \in {GetGameLogs(playerIdCache, gamelogCache, name, num_games)} :
       LET args == Call("get_game_logs", Prop(name, "", 0, 0), 0, num_games)
       IN  /\ playerIdCache' = out.idc
           /\ gamelogCache' = out.glc
           /\ fetches' = Bump(fetches, name, out.fetched)
           /\ last' = [args |-> args, logs |-> out.logs,
                       result |-> IF out.raised THEN Raised ELSE NoData]
           /\ repeat' = Repeated(last, args)
    /\ pc' = "lib"
    /\ UNCHANGED <<source, props, scored, ranked, report>>

\* a direct call of analyze_prop(prop, near_threshold, num_games)
AnalyzeProp(prop, near_threshold, num_games) ==
    /\ pc \in {"start", "lib"}
    /\ \E out \in {AnalyzePropOn(playerIdCache, gamelogCache, prop, near_threshold, num_games)} :
       LET args == Call("analyze_prop", prop, near_threshold, num_games)
       IN  /\ playerIdCache' = out.idc
           /\ gamelogCache' = out.glc
           /\ fetches' = Bump(fetches, prop.player, out.fetched)
           /\ last' = [args |-> args, logs |-> out.logs, result |-> out.result]
           /\ repeat' = Repeated(last, args)
    /\ pc' = "lib"
    /\ UNCHANGED <<source, props, scored, ranked, report>>

(***************************************************************************)
(* STEP 5 - run_analysis                                                   *)
(***************************************************************************)
\* an insertion that puts x before the results of equal score
InsertBeforeEqual(sorted, x) ==
    LET before == {i \in DOMAIN sorted : sorted[i].score > x.score}
        k      == Cardinality(before)
    IN  SubSeq(sorted, 1, k) \o <<x>> \o SubSeq(sorted, k + 1, Len(sorted))

\* results.sort(key=lambda x: x["score"], reverse=True): list.sort is stable, and
\* with reverse=True equal keys still keep their original order
InsertByScore(sorted, x) ==
    LET before == {i \in DOMAIN sorted : sorted[i].score >= x.score}
        k      == Cardinality(before)
    IN  SubSeq(sorted, 1, k) \o <<x>> \o SubSeq(sorted, k + 1, Len(sorted))

RECURSIVE SortByScore(_)
SortByScore(results) ==
    IF results = <<>> THEN <<>>
    ELSE InsertByScore(SortByScore(SubSeq(results, 1, Len(results) - 1)),
                       results[Len(results)])

\* tag = "ok mark" if score >= 60 else "yellow" if score >= 45 else "red"
\* (score in tenths; the three emoji are named)
Tag(score) ==
    IF score >= 600 THEN "check" ELSE IF score >= 450 THEN "yellow" ELSE "red"

\* generate_html.score_color, score_bg, score_border
ScoreColor(s) ==
    IF s >= 650 THEN "#34d399" ELSE IF s >= 450 THEN "#fbbf24" ELSE "#f87171"

ScoreBg(s) ==
    IF s >= 650 THEN "#0d3320" ELSE IF s >= 450 THEN "#332800" ELSE "#1a0a0a"

ScoreBorder(s) ==
    IF s >= 650 THEN "#166534" ELSE IF s >= 450 THEN "#854d0e" ELSE "#7f1d1d"

\* top_picks = [r for r in results if r["score"] >= 60]
TopPicks(results) == SelectSeq(results, LAMBDA r : r.score >= 600)

\* mid_picks = [r for r in results if 45 <= r["score"] < 60]
MidPicks(results) == SelectSeq(results, LAMBDA r : 450 <= r.score /\ r.score < 600)

\* generate_html(results), as far as it tiers scores: the two counts of the header
\* and the colours of the score cell of each row
GenerateHtml(results) ==
    [top_picks |-> Len(TopPicks(results)),
     mid_picks |-> Len(MidPicks(results)),
     rows      |-> [i \in DOMAIN results |->
                      [score_color  |-> ScoreColor(results[i].score),
                       score_bg     |-> ScoreBg(results[i].score),
                       score_border |-> ScoreBorder(results[i].score)]]]

\* the tags printed in the loop, the "Top picks:" count printed after the sort,
\* and the report
Report(tags, results) ==
    [tags |-> tags,
     top  |-> Cardinality({i \in DOMAIN results : results[i].score >= 600}),
     html |-> GenerateHtml(results)]

\* one turn of "for i, prop in enumerate(props)" on the loop state st
AnalyzeOne(st, prop) ==
    LET out  == AnalyzePropOn(st.idc, st.glc, prop, DefaultNearThreshold, DefaultNumGames)
        args == Call("analyze_prop", prop, DefaultNearThreshold, DefaultNumGames)
    IN  [idc     |-> out.idc,
         glc     |-> out.glc,
         fetches |-> Bump(st.fetches, prop.player, out.fetched),
         last    |-> [args |-> args, logs |-> out.logs, result |-> out.result],
         repeat  |-> Repeated(st.last, args),
         raised  |-> out.result.kind = "raise",
         \* if analysis is None: continue; else results.append({**prop, **analysis})
         results |-> IF out.result.kind = "ok"
                     THEN Append(st.results, out.result @@ prop)
                     ELSE st.results,
         tags    |-> IF out.result.kind = "ok"
                     THEN Append(st.tags, Tag(out.result.score))
                     ELSE st.tags]

\* the loop with "continue" written "break": it ends at the first prop without data
RECURSIVE AnalyzeAllBreak(_, _, _)
AnalyzeAllBreak(st, ps, i) ==
    IF i > Len(ps) \/ st.raised \/ (i > 1 /\ st.last.result.kind = "None") THEN st
    ELSE LET next == CHOOSE x \in {AnalyzeOne(st, ps[i])} : TRUE
         IN  AnalyzeAllBreak(next, ps, i + 1)

\* the loop over props[i..]; an exception leaves the loop and run_analysis
RECURSIVE AnalyzeAll(_, _, _)
AnalyzeAll(st, ps, i) ==
    IF i > Len(ps) \/ st.raised THEN st
    ELSE LET next == CHOOSE x \in {AnalyzeOne(st, ps[i])} : TRUE
         IN  AnalyzeAll(next, ps, i + 1)

\* run_analysis with ps the props fetch_all_props returned (non-empty, or the
\* program has exited before analysing): the script's entry point, on fresh caches
RunAnalysis(ps) ==
    /\ pc = "start"
    /\ \E st \in {AnalyzeAll([idc |-> playerIdCache, glc |-> gamelogCache,
                              fetches |-> fetches, last |-> last, repeat |-> repeat,
                              raised |-> FALSE, results |-> <<>>, tags |-> <<>>],
                             ps, 1)} :
          /\ playerIdCache' = st.idc
          /\ gamelogCache' = st.glc
          /\ fetches' = st.fetches
          /\ last' = st.last
          /\ repeat' = st.repeat
          /\ props' = ps
          /\ scored' = st.results
          /\ ranked' = IF st.raised THEN <<>> ELSE SortByScore(st.results)
          /\ report' = IF st.raised THEN Report(st.tags, <<>>)
                        ELSE Report(st.tags, SortByScore(st.results))
          /\ pc' = IF st.raised THEN "crashed" ELSE "done"
    /\ UNCHANGED source

PropLists == UNION {[1..n -> RunProps] : n \in 1..MaxProps}

\* get_game_logs called directly: one game, or the default num_games=15
LogCounts == {1, DefaultLogCount}

Init ==
    /\ \E e1 \in SourceEntries("p1"), e2 \in SourceEntries("p2") :
          source = [p \in Players |-> IF p = "p1" THEN e1 ELSE e2]
    /\ playerIdCache = [p \in Players |-> "absent"]
    /\ gamelogCache = [p \in Players |-> [present |-> FALSE, logs |-> <<>>]]
    /\ fetches = [p \in Players |-> 0]
    /\ last = NoCall
    /\ repeat = [same |-> FALSE, result |-> NoData]
    /\ pc = "start"
    /\ props = <<>>
    /\ scored = <<>>
    /\ ranked = <<>>
    /\ report = Report(<<>>, <<>>)

Next ==
    \/ \E name \in Players, num_games \in LogCounts : GetGameLogsCall(name, num_games)
    \/ \E prop \in Props, near_threshold \in NearThresholds, num_games \in NumGamesChoices :
          AnalyzeProp(prop, near_threshold, num_games)
    \/ \E ps \in PropLists : RunAnalysis(ps)

Spec == Init /\ [][Next]_vars

(***************************************************************************)
(* Properties                                                              *)
(***************************************************************************)
Analysed == last.args.op = "analyze_prop" /\ last.result.kind = "ok"

\* the exact margin of a detail: value - line, in hundredths
ExactMargin(d, line) == d.value * 100 - line

OutcomeRuleOn(details, line, thr) ==
    \A i \in DOMAIN details :
        LET d == details[i]
            m == ExactMargin(d, line)
        IN  /\ d.result \in {"HIT", "NEAR", "MISS"}
            /\ (d.result = "HIT") <=> (m > 0)
            /\ (d.result = "NEAR") <=> (0 - thr <= m /\ m <= 0)
            /\ (d.result = "MISS") <=> (m < 0 - thr)

\* C1: every record of details has exactly one result, HIT iff margin > 0, NEAR iff
\* -near_threshold <= margin <= 0, MISS iff margin < -near_threshold, with
\* margin = value - line; a margin of 0 is NEAR.
C1_OutcomeRule ==
    /\ Analysed =>
          OutcomeRuleOn(last.result.details, last.args.prop.line, last.args.near_threshold)
    /\ \A i \in DOMAIN ranked :
          OutcomeRuleOn(ranked[i].details, ranked[i].line, DefaultNearThreshold)

\* C1 witness: a sampled game whose value equals the line has been classified NEAR
C1_Witness ==
    /\ Analysed
    /\ \E i \in DOMAIN last.result.details :
          /\ ExactMargin(last.result.details[i], last.args.prop.line) = 0
          /\ last.result.details[i].result = "NEAR"
    /\ \E i \in DOMAIN last.result.details : last.result.details[i].result = "MISS"

CountResult(details, res) == Cardinality({i \in DOMAIN details : details[i].result = res})

\* C2: 'hits' and 'nears' are the numbers of details whose result is HIT and NEAR,
\* and hits + nears + (the number of MISS details) = games.
C2_CountsMatchDetails ==
    Analysed =>
        LET r == last.result
        IN  /\ r.hits = CountResult(r.details, "HIT")
            /\ r.nears = CountResult(r.details, "NEAR")
            /\ r.hits + r.nears + CountResult(r.details, "MISS") = r.games

\* C3: the score of a non-empty sample is between 0 and 100 (tenths: 0..1000).
C3_ScoreInRange ==
    /\ Analysed => (0 <= last.result.score /\ last.result.score <= 1000)
    /\ \A i \in DOMAIN ranked : 0 <= ranked[i].score /\ ranked[i].score <= 1000

\* C3 witness: a sample of hits far above the line, where avg_norm is clamped to 1
C3_Witness ==
    /\ Analysed
    /\ last.result.hits = last.result.games
    /\ last.result.avg_margin > 1000
    /\ last.result.score = 850

HasGames(name) == source[name].kind = "ok" /\ source[name].rows # <<>>

\* C4: analyze_prop returns None, and raises nothing, when the player's log is empty:
\* no player id, a failed request, or a source without rows.
C4_NoDataOnEmptyLog ==
    (last.args.op = "analyze_prop" /\ ~HasGames(last.args.prop.player))
        => last.result = NoData

\* C4 witness: analyze_prop has returned None for a player whose request failed
C4_Witness ==
    /\ last.args.op = "analyze_prop"
    /\ source[last.args.prop.player].kind = "raises"
    /\ fetches[last.args.prop.player] = 1
    /\ last.result = NoData

\* C5: analyze_prop evaluates the first num_games records of the player's log in
\* the order given: games = min(num_games, records available) and details has one
\* entry per sampled record, newest first.
C5_WindowOfLog ==
    (last.args.op = "analyze_prop" /\ HasGames(last.args.prop.player)) =>
        LET rows == source[last.args.prop.player].rows
            n    == Min(last.args.num_games, Len(rows))
        IN  /\ last.result.kind = "ok"
            /\ last.result.games = n
            /\ Len(last.result.details) = n
            /\ \A i \in 1..n : last.result.details[i].date = rows[i].GAME_DATE

\* a row with the columns of the market it lacks, or holds None for, set to 0
ZeroFilled(g, stat_cols) ==
    LET cols == {stat_cols[i] : i \in DOMAIN stat_cols}
    IN  [c \in DOMAIN g \cup cols |->
            IF c \in DOMAIN g /\ g[c] # NoneVal THEN g[c] ELSE 0]

Lacks(g, stat_cols) == \E i \in DOMAIN stat_cols : stat_cols[i] \notin DOMAIN g
HoldsNone(g, stat_cols) ==
    \E i \in DOMAIN stat_cols : stat_cols[i] \in DOMAIN g /\ g[stat_cols[i]] = NoneVal

\* C6: a record that lacks a stat column of the market, or holds None for it, gives
\* the result of the same record with that column set to 0, and no error.
C6_MissingAsZero ==
    (last.args.op = "analyze_prop" /\ last.logs # <<>>) =>
        LET cols   == MARKET_STAT_COLS[last.args.prop.market]
            filled == [i \in DOMAIN last.logs |-> ZeroFilled(last.logs[i], cols)]
        IN  /\ last.result.kind = "ok"
            /\ last.result = AnalyzeSample(filled, last.args.prop,
                                           last.args.near_threshold, last.args.num_games)

\* C6 witness: the sample analysed has a row lacking a column of the market and a
\* row holding None for one
C6_Witness ==
    /\ Analysed
    /\ LET cols   == MARKET_STAT_COLS[last.args.prop.market]
           sample == Take(last.logs, last.args.num_games)
       IN  /\ \E i \in DOMAIN sample : Lacks(sample[i], cols)
           /\ \E i \in DOMAIN sample : HoldsNone(sample[i], cols)

\* the amounts (hundredths) by which a line is lowered
Shifts == {4, 25, 100, 175, 3000}

ShiftedScore(c) ==
    AnalyzeSample(last.logs, [last.args.prop EXCEPT !.line = @ - c],
                  last.args.near_threshold, last.args.num_games).score

C8_Idempotent ==
    (repeat.same /\ last.args.op = "analyze_prop") => last.result = repeat.result

\* C8 witness: analyze_prop has been called twice in a row with the same arguments
\* for a player with a full window of games
C8_Witness ==
    /\ repeat.same
    /\ Analysed
    /\ last.result.games = LogSlack + 2

WithScore(results, v) == SelectSeq(results, LAMBDA r : r.score = v)

\* C9: the ranked results are in non-increasing order of score and are the scored
\* results, those of equal score in the order in which they were appended.
C9_RankedStable ==
    pc = "done" =>
        /\ Len(ranked) = Len(scored)
        /\ \A i \in 1..(Len(ranked) - 1) : ranked[i].score >= ranked[i + 1].score
        /\ \A i \in DOMAIN scored :
              WithScore(ranked, scored[i].score) = WithScore(scored, scored[i].score)

\* C9 witness: three results were ranked, the sort moved one, and two different
\* results tie
C9_Witness ==
    /\ pc = "done"
    /\ Len(ranked) = 3
    /\ ranked # scored
    /\ \E i, j \in DOMAIN scored :
          i < j /\ scored[i].score = scored[j].score /\ scored[i] # scored[j]
    /\ \E i, j \in DOMAIN scored : scored[i].score < scored[j].score

PropOf(r) == Prop(r.player, r.market, r.line, r.over_odds)
Occurrences(s, x) == Cardinality({i \in DOMAIN s : s[i] = x})

\* C10: the ranked output holds exactly the props whose player has game logs, each
\* as often as it was given; a prop without data is left out and does not stop the
\* props after it.
C10_RankedExactlyScored ==
    pc # "crashed" /\
    (pc = "done" =>
        LET rankedProps == [i \in DOMAIN ranked |-> PropOf(ranked[i])]
        IN  /\ Len(ranked) = Cardinality({i \in DOMAIN props : HasGames(props[i].player)})
            /\ \A i \in DOMAIN props :
                  Occurrences(rankedProps, props[i]) =
                      IF HasGames(props[i].player) THEN Occurrences(props, props[i]) ELSE 0)

\* C10 witness: the first prop had no data and a later prop was ranked
C10_Witness ==
    /\ pc = "done"
    /\ Len(props) = 3
    /\ ~HasGames(props[1].player)
    /\ HasGames(props[3].player)
    /\ Len(ranked) = 2

\* the display tier of a score (tenths), lower bounds inclusive
TierOf(score) ==
    IF score >= 600 THEN "top pick"
    ELSE IF score >= 450 THEN "moderate"
    ELSE "low confidence"

TagTier(tag) ==
    IF tag = "check" THEN "top pick"
    ELSE IF tag = "yellow" THEN "moderate" ELSE "low confidence"

\* the tier a colour of the score cell stands for (green, amber, red)
ColourTier(c) ==
    IF c \in {"#34d399", "#0d3320", "#166534"} THEN "top pick"
    ELSE IF c \in {"#fbbf24", "#332800", "#854d0e"} THEN "moderate"
    ELSE "low confidence"

CountTier(results, tier) ==
    Cardinality({i \in DOMAIN results : TierOf(results[i].score) = tier})

\* C11: every scored result has one tier, score >= 60 top pick, 45 <= score < 60
\* moderate, else low confidence, and the console tag, the top / moderate counts
\* and the colours of the score in the report all follow these boundaries.
C11_SameTiers ==
    pc = "done" =>
        /\ Len(report.tags) = Len(scored)
        /\ \A i \in DOMAIN scored : TagTier(report.tags[i]) = TierOf(scored[i].score)
        /\ report.top = CountTier(ranked, "top pick")
        /\ report.html.top_picks = CountTier(ranked, "top pick")
        /\ report.html.mid_picks = CountTier(ranked, "moderate")
        /\ \A i \in DOMAIN ranked :
              /\ ColourTier(report.html.rows[i].score_color) = TierOf(ranked[i].score)
              /\ ColourTier(report.html.rows[i].score_bg) = TierOf(ranked[i].score)
              /\ ColourTier(report.html.rows[i].score_border) = TierOf(ranked[i].score)

\* C12: the log source is requested at most once per player name; once a name has
\* been looked up, whatever the outcome, its cache entry serves every later call.
C12_FetchedAtMostOnce ==
    \A p \in Players :
        /\ fetches[p] <= 1
        /\ (playerIdCache[p] # "absent" \/ fetches[p] > 0) => gamelogCache[p].present
        /\ source[p].kind = "noid" => fetches[p] = 0

\* C12 witness: a call was repeated for a player whose request had failed, still
\* with one request made for that name, and every name has been looked up
C12_Witness ==
    /\ repeat.same
    /\ source[last.args.prop.player].kind = "raises"
    /\ fetches[last.args.prop.player] = 1
    /\ \A p \in Players : gamelogCache[p].present

ExactMargins(r, line) == [i \in DOMAIN r.details |-> ExactMargin(r.details[i], line)]

\* C13: the aggregates come from the full-precision margins: avg_margin is the mean
\* of value - line rounded to 2 decimals, and hits / nears are counted on the exact
\* margins, not on margins rounded to 1 decimal.
C13_FullPrecision ==
    Analysed =>
        LET r   == last.result
            ms  == ExactMargins(r, last.args.prop.line)
            thr == last.args.near_threshold
        IN  /\ r.avg_margin = RoundDiv(SumSeq(ms), r.games)
            /\ r.hits = Cardinality({i \in DOMAIN ms : ms[i] > 0})
            /\ r.nears = Cardinality({i \in DOMAIN ms : 0 - thr <= ms[i] /\ ms[i] <= 0})

\* the rows a call asks get_game_logs for: num_games, and analyze_prop asks for
\* num_games + 5
RequestedCount(args) ==
    IF args.op = "analyze_prop" THEN args.num_games + LogSlack ELSE args.num_games

\* C14: get_game_logs(player, k) returns the first min(k, games at the source)
\* records of the player's log whatever calls were made before; a larger k after
\* a smaller k returns what an uncached request returns.
C14_LogsIndependentOfHistory ==
    last.args.op \in {"get_game_logs", "analyze_prop"} =>
        LET name == last.args.prop.player
            rows == IF source[name].kind = "ok" THEN source[name].rows ELSE <<>>
        IN  last.logs = Take(rows, RequestedCount(last.args))

====
